---- MODULE Spec2Model ----
(***************************************************************************)
(* A model of covasim/cova_base/model.py: the parameter store (ParsObj),   *)
(* the simulation driver's seeding (Sim.set_seed), the replicate runner    *)
(* (single_run) and the batch runner (multi_run).                          *)
(*                                                                         *)
(* Objects live in a heap: a function from object references to parameter  *)
(* dicts.  A Sim and its pars dict are one heap cell.  Parameter values    *)
(* are exact rationals <<numerator, denominator>> in lowest terms, so the  *)
(* noise multiplication is computed, not abstracted.                       *)
(***************************************************************************)
EXTENDS Integers, Sequences, FiniteSets, TLC

VARIABLES heap,      \* reference -> pars dict (key -> value)
          last,      \* record of the last operation: arguments and outcome
          rng,       \* seed last given to the process-wide generator
          initKeys   \* key set of the mapping the object was constructed from

vars == <<heap, last, rng, initKeys>>

-----------------------------------------------------------------------------
(* Bounds *)

MaxInd == 1        \* largest replicate index given to single_run
MaxN == 2          \* largest replicate count given to multi_run
MaxSeed == 2       \* largest seed value given to set_seed
MaxLen == 2        \* largest length of an iterpars sequence

-----------------------------------------------------------------------------
(* Exact rational arithmetic for parameter values *)

Abs(x) == IF x < 0 THEN -x ELSE x

RECURSIVE GCD(_, _)
GCD(a, b) == IF b = 0 THEN a ELSE GCD(b, a % b)

Rat(n, d) ==
    LET g == GCD(Abs(n), Abs(d))
        s == IF d < 0 THEN -1 ELSE 1
    IN  <<(s * n) \div g, (s * d) \div g>>

RInt(i) == <<i, 1>>
RAdd(a, b) == Rat(a[1] * b[2] + b[1] * a[2], a[2] * b[2])
RSub(a, b) == Rat(a[1] * b[2] - b[1] * a[2], a[2] * b[2])
RMul(a, b) == Rat(a[1] * b[1], a[2] * b[2])
RInv(a) == Rat(a[2], a[1])
RGt(a, b) == a[1] * b[2] > b[1] * a[2]
RGe(a, b) == a[1] * b[2] >= b[1] * a[2]

None == <<>>           \* Python's None where a value may be given
NoKey == "None"        \* Python's None where a key name may be given
NoRef == 0             \* Python's None where a Sim may be given
T == 1                 \* reference of the constructed object / the template
NotADict == [k \in {"<list>"} |-> None]   \* an argument that is no dict
NoHeap == [r \in {} |-> None]

-----------------------------------------------------------------------------
(* ParsObj *)

\* ParsObj.__getitem__: self.pars[key]; a missing key is a KeyError.
HasItem(h, ref, key) == key \in DOMAIN h[ref]
GetItem(h, ref, key) == h[ref][key]

\* A plausible slip: assign without the membership test.
SetItemNoCheck(h, ref, key, value) ==
    [status |-> "ok",
     heap |-> [h EXCEPT ![ref] = (key :> value) @@ h[ref]]]

\* ParsObj.__setitem__
SetItem(h, ref, key, value) ==
    IF key \in DOMAIN h[ref]
    THEN [status |-> "ok", heap |-> [h EXCEPT ![ref][key] = value]]
    ELSE [status |-> "UnknownKey", heap |-> h]

\* ParsObj.update_pars: dict.update overwrites the keys of the update and
\* adds those the store does not have.
UpdatePars(h, ref, pars) ==
    IF pars = NotADict
    THEN [status |-> "TypeError", heap |-> h]
    ELSE IF ref \notin DOMAIN h
    THEN [status |-> "ok", heap |-> (ref :> pars) @@ h]
    ELSE [status |-> "ok", heap |-> [h EXCEPT ![ref] = pars @@ h[ref]]]

\* ParsObj.__init__ / Sim.__init__: a new object, filled by update_pars.
Construct(h, ref, pars) == UpdatePars(h, ref, pars)

-----------------------------------------------------------------------------
(* Sim.set_seed *)

\* utils.set_seed: reseeds the process-wide generator; the log records each
\* seed it was called with.
UtSetSeed(log, seed) == Append(log, seed)

\* A plausible slip: truthiness tests instead of `is None`.
SetSeedTruthy(h, ref, seed, randomize, log) ==
    IF randomize
    THEN IF seed = None \/ seed = RInt(0)
         THEN [status |-> "ok", heap |-> h, log |-> UtSetSeed(log, None)]
         ELSE [status |-> "ValueError", heap |-> h, log |-> log]
    ELSE IF seed = None \/ seed = RInt(0)
         THEN IF HasItem(h, ref, "seed")
              THEN [status |-> "ok", heap |-> h,
                    log |-> UtSetSeed(log, GetItem(h, ref, "seed"))]
              ELSE [status |-> "UnknownKey", heap |-> h, log |-> log]
         ELSE LET r == SetItem(h, ref, "seed", seed)
              IN  IF r.status = "ok"
                  THEN [status |-> "ok", heap |-> r.heap,
                        log |-> UtSetSeed(log, seed)]
                  ELSE [status |-> r.status, heap |-> h, log |-> log]

\* Sim.set_seed(seed, randomize)
SetSeed(h, ref, seed, randomize, log) ==
    IF randomize
    THEN IF seed = None
         THEN [status |-> "ok", heap |-> h, log |-> UtSetSeed(log, None)]
         ELSE [status |-> "ValueError", heap |-> h, log |-> log]
    ELSE IF seed = None
         THEN IF HasItem(h, ref, "seed")
              THEN [status |-> "ok", heap |-> h,
                    log |-> UtSetSeed(log, GetItem(h, ref, "seed"))]
              ELSE [status |-> "UnknownKey", heap |-> h, log |-> log]
         ELSE LET r == SetItem(h, ref, "seed", seed)
              IN  IF r.status = "ok"
                  THEN [status |-> "ok", heap |-> r.heap,
                        log |-> UtSetSeed(log, seed)]
                  ELSE [status |-> r.status, heap |-> h, log |-> log]

LastOf(log, old) == IF log = <<>> THEN old ELSE log[Len(log)]

-----------------------------------------------------------------------------
(* The parameter store and seeding, driven on one constructed Sim *)

StoreKeys == {"seed", "beta"}
NewKeys == {"r0"}
StoreVals == {RInt(0), RInt(1), RInt(2)}

\* Initial mappings: every Sim carries a seed.
InitMappings ==
    {[k \in ks |-> RInt(1)] : ks \in {{"seed"}, StoreKeys}}

\* Mappings given to update_pars: one key, known or new, or not a dict.
UpdateMappings ==
    {(k :> v) : k \in StoreKeys \cup NewKeys, v \in {RInt(0), RInt(2)}}
        \cup {NotADict}

SeedArgs == {RInt(s) : s \in 0..MaxSeed} \cup {None}

StoreInit ==
    /\ \E m \in InitMappings :
          /\ heap = Construct(NoHeap, T, m).heap
          /\ initKeys = DOMAIN m
    /\ last = [op |-> "init"]
    /\ rng = None

DoGetItem ==
    \E key \in StoreKeys \cup NewKeys :
       /\ last' = [op |-> "getitem", key |-> key, pre |-> heap[T],
                   status |-> IF HasItem(heap, T, key) THEN "ok" ELSE "UnknownKey",
                   value |-> IF HasItem(heap, T, key)
                             THEN GetItem(heap, T, key) ELSE None]
       /\ UNCHANGED <<heap, rng, initKeys>>

DoSetItem ==
    \E key \in StoreKeys \cup NewKeys, value \in StoreVals :
       LET r == SetItem(heap, T, key, value)
       IN  /\ heap' = r.heap
           /\ last' = [op |-> "setitem", key |-> key, value |-> value,
                       pre |-> heap[T], status |-> r.status]
           /\ UNCHANGED <<rng, initKeys>>

DoUpdatePars ==
    \E pars \in UpdateMappings :
       LET r == UpdatePars(heap, T, pars)
       IN  /\ heap' = r.heap
           /\ last' = [op |-> "update_pars", pars |-> pars,
                       pre |-> heap[T], status |-> r.status]
           /\ UNCHANGED <<rng, initKeys>>

DoSetSeed ==
    \E seed \in SeedArgs, randomize \in BOOLEAN :
       LET r == SetSeed(heap, T, seed, randomize, <<>>)
       IN  /\ heap' = r.heap
           /\ rng' = LastOf(r.log, rng)
           /\ last' = [op |-> "set_seed", seed |-> seed, randomize |-> randomize,
                       pre |-> heap[T], status |-> r.status, log |-> r.log]
           /\ UNCHANGED initKeys

StoreNext == DoGetItem \/ DoSetItem \/ DoUpdatePars \/ DoSetSeed

StoreSpec == StoreInit /\ [][StoreNext]_vars

-----------------------------------------------------------------------------
(* single_run *)

NewRef(h) == Cardinality(DOMAIN h) + 1

\* A plausible slip: use the template itself instead of a copy of it.
DcpAlias(h, ref) == [heap |-> h, ref |-> ref]

\* sc.dcp: a deep copy is a new object with equal contents.
Dcp(h, ref) == [heap |-> (NewRef(h) :> h[ref]) @@ h, ref |-> NewRef(h)]

\* The state single_run threads through its steps.  status = "run" while no
\* exception was raised; hooked says whether the run hook was invoked and
\* hookPars holds the replicate's parameters at that moment.
SrState(status, h, ref, log) ==
    [status |-> status, heap |-> h, ref |-> ref, log |-> log,
     verbose |-> None, noisepar |-> NoKey, noiseval |-> None,
     noisefactor |-> None, hooked |-> FALSE, hookPars |-> NotADict]

Raise(st, error) == [st EXCEPT !.status = error]

\* Lines 165-171: Sim(**sim_args) with sim_args = {'pars': simArgs}, or a
\* deep copy of the template.
SrNewSim(h, sim, simArgs) ==
    IF sim = NoRef
    THEN LET r == Construct(h, NewRef(h), simArgs)
         IN  SrState(IF r.status = "ok" THEN "run" ELSE r.status,
                     r.heap, NewRef(h), <<>>)
    ELSE LET c == Dcp(h, sim)
         IN  SrState("run", c.heap, c.ref, <<>>)

\* Lines 173-174
SrVerbose(st, verbose) ==
    IF st.status # "run" THEN st
    ELSE IF verbose # None THEN [st EXCEPT !.verbose = verbose]
    ELSE IF HasItem(st.heap, st.ref, "verbose")
    THEN [st EXCEPT !.verbose = GetItem(st.heap, st.ref, "verbose")]
    ELSE Raise(st, "UnknownKey")

\* Lines 176-177: new_sim['seed'] += ind; new_sim.set_seed()
SrSeed(st, ind) ==
    IF st.status # "run" THEN st
    ELSE IF ~HasItem(st.heap, st.ref, "seed") THEN Raise(st, "UnknownKey")
    ELSE LET w == SetItem(st.heap, st.ref, "seed",
                          RAdd(GetItem(st.heap, st.ref, "seed"), RInt(ind)))
             r == SetSeed(w.heap, st.ref, None, FALSE, st.log)
         IN  [st EXCEPT !.heap = r.heap, !.log = r.log,
                        !.status = IF r.status = "ok" THEN "run" ELSE r.status]

guesses == <<"r_contact", "r0", "beta">>

\* Lines 180-186: the guesses are looked up in sim.pars, the sim argument's
\* parameters; sim is None when the simulation was built from sim_args.
SrNoisePar(st, sim, noisepar) ==
    IF st.status # "run" THEN st
    ELSE IF noisepar # NoKey THEN [st EXCEPT !.noisepar = noisepar]
    ELSE IF sim = NoRef THEN Raise(st, "AttributeError")
    ELSE LET found == SelectSeq(guesses, LAMBDA g : g \in DOMAIN st.heap[sim])
         IN  IF Len(found) # 1 THEN Raise(st, "AmbiguousNoise")
             ELSE [st EXCEPT !.noisepar = found[1]]

\* A plausible slip: the same formula on both sides of zero.
NoiseFactorSymmetric(noiseval) == RAdd(RInt(1), noiseval)

\* Lines 190-193
NoiseFactor(noiseval) ==
    IF RGt(noiseval, RInt(0))
    THEN RAdd(RInt(1), noiseval)
    ELSE RInv(RSub(RInt(1), noiseval))

\* Lines 189-194: draw is the value of np.random.normal()
SrNoise(st, noise, draw) ==
    IF st.status # "run" THEN st
    ELSE LET noiseval == RMul(noise, draw)
             noisefactor == NoiseFactor(noiseval)
             st1 == [st EXCEPT !.noiseval = noiseval,
                               !.noisefactor = noisefactor]
         IN  IF ~HasItem(st.heap, st.ref, st.noisepar)
             THEN Raise(st1, "UnknownKey")
             ELSE [st1 EXCEPT !.heap =
                      SetItem(st.heap, st.ref, st.noisepar,
                              RMul(GetItem(st.heap, st.ref, st.noisepar),
                                   noisefactor)).heap]

\* A plausible slip: leave the overrides out.
SrOverridesSkip(st, kwargs) == st

\* Lines 200-208: kwargs is the sequence of (key, value) items of **kwargs;
\* the assignment is inside `if verbose>=1`.
RECURSIVE SrOverrides(_, _)
SrOverrides(st, kwargs) ==
    IF st.status # "run" \/ kwargs = <<>> THEN st
    ELSE LET key == Head(kwargs)[1]
             val == Head(kwargs)[2]
         IN  IF key \in DOMAIN st.heap[st.ref]
             THEN SrOverrides(
                    IF RGe(st.verbose, RInt(1))
                    THEN [st EXCEPT !.heap = SetItem(st.heap, st.ref, key, val).heap]
                    ELSE st,
                    Tail(kwargs))
             ELSE Raise(st, "UnknownOverride")

\* Line 211: the run hook belongs to the specialization; runOK says whether
\* it returns or raises.  Sim.run itself (lines 131-133) always raises.
SrRun(st, runOK) ==
    IF st.status # "run" THEN st
    ELSE [st EXCEPT !.hooked = TRUE, !.hookPars = st.heap[st.ref],
                    !.status = IF runOK THEN "ok" ELSE "RunError"]

\* single_run(sim, ind, noise, noisepar, verbose, sim_args, **kwargs)
SingleRun(h, sim, ind, noise, draw, noisepar, verbose, simArgs, kwargs, runOK) ==
    SrRun(
      SrOverrides(
        SrNoise(
          SrNoisePar(
            SrSeed(SrVerbose(SrNewSim(h, sim, simArgs), verbose), ind),
            sim, noisepar),
          noise, draw),
        kwargs),
      runOK)

-----------------------------------------------------------------------------
(* multi_run *)

NoIterpars == [given |-> FALSE, items |-> <<>>]

\* A plausible slip: only a shorter entry is taken for a mismatch.
RECURSIVE IterLenShorter(_, _)
IterLenShorter(items, n) ==
    IF items = <<>> THEN [status |-> "run", n |-> n]
    ELSE LET new_n == <<Len(Head(items)[2])>>
         IN  IF n # None /\ new_n[1] < n[1]
             THEN [status |-> "LengthMismatch", n |-> n]
             ELSE IterLenShorter(Tail(items), new_n)

\* Lines 231-240: n is reset to None and then follows the lengths of the
\* entries; an entry that differs from the one before it raises.
RECURSIVE IterLen(_, _)
IterLen(items, n) ==
    IF items = <<>> THEN [status |-> "run", n |-> n]
    ELSE LET new_n == <<Len(Head(items)[2])>>
         IN  IF n # None /\ new_n # n
             THEN [status |-> "LengthMismatch", n |-> n]
             ELSE IterLen(Tail(items), new_n)

\* The keyword arguments replicate i receives from iterkwargs besides ind.
IterKwargs(items, i) ==
    [j \in 1..Len(items) |->
        <<items[j][1],
          IF i + 1 <= Len(items[j][2]) THEN items[j][2][i + 1] ELSE None>>]

\* A plausible slip: every replicate gets index 0.
ReplicateIndexZero(i) == 0

\* Line 243: iterkwargs['ind'] = np.arange(n)
ReplicateIndex(i) == i

\* Line 246: sc.parallelize(single_run, iterkwargs, kwargs): replicate i runs
\* single_run(ind=i, <iterpars entries i>, sim, noise, noisepar, verbose,
\* sim_args).  The overrides given to multi_run are not among them: line 245
\* rebinds kwargs.  acc collects the replicates' final states in index order.
RECURSIVE Parallelize(_, _, _, _, _, _, _, _, _, _, _, _)
Parallelize(h, acc, i, n, sim, noise, draws, noisepar, verbose, simArgs, items, runs) ==
    IF i >= n THEN [heap |-> h, sims |-> acc]
    ELSE LET st == SingleRun(h, sim, ReplicateIndex(i), noise, draws[i + 1],
                             noisepar, verbose, simArgs,
                             IterKwargs(items, i), runs[i + 1])
         IN  Parallelize(st.heap, Append(acc, st), i + 1, n, sim, noise, draws,
                         noisepar, verbose, simArgs, items, runs)

FirstError(sims) ==
    LET bad == SelectSeq(sims, LAMBDA st : st.status # "ok")
    IN  IF bad = <<>> THEN "ok" ELSE bad[1].status

Concat(logs) ==
    LET RECURSIVE cat(_)
        cat(i) == IF i > Len(logs) THEN <<>> ELSE logs[i].log \o cat(i + 1)
    IN  cat(1)

\* Lines 248-259 on the parameters: the first replicate is copied, the copy
\* gets 'parallelized' and its 'n' is multiplied.  people and results are
\* attributes of the specialization and hold no parameters.
Combine(h, sims, n) ==
    IF sims = <<>> THEN [status |-> "IndexError", heap |-> h, ref |-> NoRef]
    ELSE LET c == Dcp(h, sims[1].ref)
             h1 == [c.heap EXCEPT ![c.ref] =
                       ("parallelized" :> RInt(n)) @@ c.heap[c.ref]]
         IN  IF "n" \notin DOMAIN h1[c.ref]
             THEN [status |-> "UnknownKey", heap |-> h1, ref |-> NoRef]
             ELSE [status |-> "ok", ref |-> c.ref,
                   heap |-> [h1 EXCEPT ![c.ref]["n"] = RMul(@, RInt(n))]]

\* The outcome of a multi_run call: sims are the replicates' final states in
\* index order (their objects live in heap), out the combined simulation.
MrResult(status, h, dispatched, sims, out) ==
    [status |-> status, heap |-> h, dispatched |-> dispatched,
     sims |-> [i \in 1..Len(sims) |-> [sims[i] EXCEPT !.heap = NoHeap]],
     out |-> out, log |-> Concat(sims)]

\* Lines 231-240 with the count that results: <<n>> or None.
ReplicateCount(n, iterpars) ==
    IF iterpars.given THEN IterLen(iterpars.items, None)
    ELSE [status |-> "run", n |-> <<n>>]

\* multi_run(sim, n, noise, noisepar, iterpars, verbose, sim_args, combine,
\* **kwargs).  draws and runs give, per replicate, the value of its normal
\* draw and whether its run hook returns.  np.arange(None) is a TypeError.
MultiRun(h, sim, n, noise, draws, noisepar, iterpars, verbose, simArgs, combine, kwargs, runs) ==
    LET s0 == IF sim = NoRef
              THEN [heap |-> Construct(h, NewRef(h), simArgs).heap, ref |-> NewRef(h)]
              ELSE [heap |-> h, ref |-> sim]
        len == ReplicateCount(n, iterpars)
    IN  IF len.status # "run" THEN MrResult(len.status, s0.heap, 0, <<>>, NoRef)
        ELSE IF len.n = None THEN MrResult("TypeError", s0.heap, 0, <<>>, NoRef)
        ELSE LET p == Parallelize(s0.heap, <<>>, 0, len.n[1], s0.ref, noise, draws,
                                  noisepar, verbose, simArgs, iterpars.items, runs)
                 err == FirstError(p.sims)
             IN  IF err # "ok"
                 THEN MrResult(err, p.heap, len.n[1], p.sims, NoRef)
                 ELSE IF ~combine
                 THEN MrResult("ok", p.heap, len.n[1], p.sims, NoRef)
                 ELSE LET c == Combine(p.heap, p.sims, len.n[1])
                      IN  MrResult(c.status, c.heap, len.n[1], p.sims, c.ref)

-----------------------------------------------------------------------------
(* The replicate and batch runners, driven on one template *)

Candidates == {"r_contact", "r0", "beta"}

\* A simulation's parameters: seed, verbose and n, and some of the noise
\* candidates.  r_contact is negative to exercise the sign.
Pars(cands, seed, verbose) ==
    [k \in {"seed", "verbose", "n"} \cup cands |->
        CASE k = "seed" -> RInt(seed)
          [] k = "verbose" -> RInt(verbose)
          [] k = "r_contact" -> RInt(-1)
          [] k = "r0" -> RInt(3)
          [] k = "beta" -> Rat(1, 2)
          [] OTHER -> RInt(10)]

Templates == {Pars(c, 1, v) : c \in SUBSET Candidates, v \in {0, 1}}

NoArgs == [k \in {} |-> None]
\* sim_args = {'pars': ...} of a call without a template
SimArgsSet == {Pars({"beta"}, 2, 1), Pars({"r0", "beta"}, 2, 0)}
SimArgsFor(sim) == IF sim = NoRef THEN SimArgsSet ELSE {NoArgs}

Noises == {RInt(0), RInt(1)}
Draws == {RInt(-2), RInt(0), Rat(1, 2)}
BatchDraws == {RInt(-2), Rat(1, 2)}
NoiseParArgs == {NoKey, "beta", "seed", "zeta"}
VerboseArgs == {None, RInt(0), RInt(1)}
Overrides ==
    {<<>>} \cup {<<<<k, RInt(5)>>>> : k \in {"beta", "seed", "zeta"}}
           \cup {<<<<"beta", RInt(5)>>, <<"zeta", RInt(7)>>>>}
BatchOverrides == {<<>>, <<<<"beta", RInt(5)>>>>, <<<<"zeta", RInt(5)>>>>}

\* iterpars: up to three entries, each a sequence of up to MaxLen values
IterKeys == <<"beta", "seed", "verbose">>
IterVals(len) == [i \in 1..len |-> RInt(4 + i)]
IterparsSet ==
    {[given |-> TRUE,
      items |-> [j \in 1..k |-> <<IterKeys[j], IterVals(lens[j])>>]] :
        k \in 0..3, lens \in [1..3 -> 0..MaxLen]}

\* Whether each replicate's run hook returns: all do, or all but one.
RunsSet(count) ==
    {[i \in 1..count |-> i # failing] : failing \in 0..count}

RunInit ==
    /\ \E m \in Templates :
          /\ heap = Construct(NoHeap, T, m).heap
          /\ initKeys = DOMAIN m
    /\ last = [op |-> "init"]
    /\ rng = None

\* Each behaviour is one call on the constructed template.
Idle == last.op = "init"

DoSingleRun ==
    /\ Idle
    /\ \E sim \in {T, NoRef}, ind \in 0..MaxInd, noise \in Noises, draw \in Draws,
          noisepar \in NoiseParArgs, verbose \in VerboseArgs,
          kwargs \in Overrides, runOK \in BOOLEAN :
       \E simArgs \in SimArgsFor(sim) :
          LET r == SingleRun(heap, sim, ind, noise, draw, noisepar, verbose,
                             simArgs, kwargs, runOK)
          IN  /\ heap' = r.heap
              /\ rng' = LastOf(r.log, rng)
              /\ last' = [op |-> "single_run", sim |-> sim, ind |-> ind,
                          noise |-> noise, noisepar |-> noisepar,
                          verbose |-> verbose, simArgs |-> simArgs,
                          kwargs |-> kwargs, pre |-> heap[T], res |-> r]
              /\ UNCHANGED initKeys

\* One multi_run call.  The replicates run in worker processes: the
\* caller's generator is theirs only by copy.
Batch(sim, n, noise, noisepar, iterpars, verbose, simArgs, combine, kwargs) ==
    LET len == ReplicateCount(n, iterpars)
        count == IF len.status = "run" /\ len.n # None THEN len.n[1] ELSE 0
    IN  \E draws \in [1..count -> BatchDraws], runs \in RunsSet(count) :
           LET r == MultiRun(heap, sim, n, noise, draws, noisepar, iterpars,
                             verbose, simArgs, combine, kwargs, runs)
           IN  /\ heap' = r.heap
               /\ last' = [op |-> "multi_run", sim |-> sim, n |-> n,
                           noise |-> noise, noisepar |-> noisepar,
                           iterpars |-> iterpars, verbose |-> verbose,
                           simArgs |-> simArgs, combine |-> combine,
                           kwargs |-> kwargs, pre |-> heap[T], res |-> r]
               /\ UNCHANGED <<rng, initKeys>>

\* multi_run with a replicate count
DoMultiRun ==
    /\ Idle
    /\ \E sim \in {T, NoRef}, n \in 0..MaxN, noise \in Noises,
          noisepar \in {NoKey, "seed"}, verbose \in {None, RInt(1)},
          combine \in BOOLEAN, kwargs \in BatchOverrides :
       \E simArgs \in SimArgsFor(sim) :
          Batch(sim, n, noise, noisepar, NoIterpars, verbose, simArgs,
                combine, kwargs)

\* multi_run with iterpars
DoMultiRunIter ==
    /\ Idle
    /\ \E n \in {0, MaxN}, iterpars \in IterparsSet, verbose \in {None, RInt(1)} :
          Batch(T, n, RInt(1), NoKey, iterpars, verbose, NoArgs, FALSE, <<>>)

RunNext == DoSingleRun \/ DoMultiRun \/ DoMultiRunIter

RunSpec == RunInit /\ [][RunNext]_vars

-----------------------------------------------------------------------------
(* Properties of the parameter store and of seeding (StoreSpec) *)

\* C1: the key set of a store is fixed at construction: after any sequence
\* of get, set and update_pars operations the store's keys are the keys of
\* the initial mapping.
C1_KeysFixed == DOMAIN heap[T] = initKeys

\* C8: setting an existing key updates exactly that key and leaves every
\* other key's value unchanged; setting a nonexistent key raises the
\* unknown-key error and leaves the store unchanged.
C8_SetItemFrame ==
    last.op = "setitem" =>
       IF last.key \in DOMAIN last.pre
       THEN /\ last.status = "ok"
            /\ DOMAIN heap[T] = DOMAIN last.pre
            /\ heap[T][last.key] = last.value
            /\ \A k \in DOMAIN last.pre \ {last.key} : heap[T][k] = last.pre[k]
       ELSE /\ last.status = "UnknownKey"
            /\ heap[T] = last.pre

C8_Witness ==
    /\ last.op = "setitem"
    /\ last.key \in DOMAIN last.pre
    /\ last.pre[last.key] # last.value
    /\ heap[T][last.key] = last.value
    /\ Cardinality(DOMAIN last.pre) >= 2

C8_WitnessUnknown ==
    /\ last.op = "setitem"
    /\ last.key \notin DOMAIN last.pre
    /\ last.status = "UnknownKey"

\* C9: a set_seed call with an explicit seed and randomize false stores that
\* seed (0 included) and reseeds with it; without a seed it reseeds with the
\* stored seed and keeps it; with randomize alone it keeps the stored seed;
\* with both it raises the conflicting-argument error, does not reseed and
\* keeps the stored seed.  No call changes another parameter.
C9_SetSeed ==
    last.op = "set_seed" =>
       LET explicit == last.seed # None
           conflict == explicit /\ last.randomize
       IN  /\ (last.status = "ValueError") <=> conflict
           /\ ~conflict => last.status = "ok"
           /\ conflict => last.log = <<>> /\ heap[T] = last.pre
           /\ heap[T]["seed"] = IF explicit /\ ~last.randomize
                                THEN last.seed ELSE last.pre["seed"]
           /\ explicit /\ ~last.randomize => last.log = <<last.seed>>
           /\ ~explicit /\ ~last.randomize => last.log = <<last.pre["seed"]>>
           /\ ~explicit /\ last.randomize => last.log = <<None>>
           /\ ~conflict => rng = last.log[1]
           /\ DOMAIN heap[T] = DOMAIN last.pre
           /\ \A k \in DOMAIN last.pre \ {"seed"} : heap[T][k] = last.pre[k]

C9_Witness ==
    /\ last.op = "set_seed"
    /\ last.seed = RInt(0)
    /\ ~last.randomize
    /\ last.pre["seed"] # RInt(0)
    /\ heap[T]["seed"] = RInt(0)

-----------------------------------------------------------------------------
(* Properties of single_run and multi_run (RunSpec) *)

\* The parameters of the simulation a call runs: the template's, or those
\* given in sim_args when there is no template.
RunPars == IF last.sim = NoRef THEN last.simArgs ELSE last.pre

UnknownOverride == \E i \in 1..Len(last.kwargs) : last.kwargs[i][1] \notin DOMAIN RunPars

\* C2: every override given to single_run whose name is a parameter is
\* applied after the noise: when the run hook is invoked, the replicate's
\* parameter for each override key is the override's value, for every
\* verbosity.
C2_OverridesApplied ==
    (last.op = "single_run" /\ last.res.hooked) =>
       \A i \in 1..Len(last.kwargs) :
          last.res.hookPars[last.kwargs[i][1]] = last.kwargs[i][2]

\* C3: an override given to multi_run that names no parameter of the
\* simulation makes the call fail as it makes single_run fail: once a
\* replicate is dispatched the call does not return, no run hook is invoked,
\* and the error is the unknown-override error unless single_run raises an
\* earlier one.
C3_BatchUnknownOverride ==
    (last.op = "multi_run" /\ UnknownOverride /\ last.res.dispatched >= 1) =>
       /\ last.res.status \in {"UnknownOverride", "UnknownKey", "AmbiguousNoise"}
       /\ \A i \in 1..Len(last.res.sims) : ~last.res.sims[i].hooked

\* The seeds of the replicates a batch returned are the template's seed
\* plus the replicate index, and so pairwise distinct.
BatchSeeds ==
    LET sims == last.res.sims
        seed(i) == last.res.heap[sims[i].ref]["seed"]
    IN  /\ Len(sims) = last.n
        /\ \A i \in 1..Len(sims) : seed(i) = RAdd(last.pre["seed"], RInt(i - 1))
        /\ \A i, j \in 1..Len(sims) : i # j => seed(i) # seed(j)

BatchReturned ==
    /\ last.op = "multi_run"
    /\ last.sim = T
    /\ ~last.iterpars.given
    /\ ~last.combine
    /\ last.res.status = "ok"

\* C4 as stated: multi_run with a template, a replicate count n, no iterpars
\* and combine=False returns n simulations in index order, the i-th with
\* seed S.seed + i, pairwise distinct.
C4_BatchSeeds == BatchReturned => BatchSeeds

\* C4 amended: the same, unless the seed is the noise parameter and the
\* noise magnitude is not 0.
C4_BatchSeedsUnlessNoised ==
    (BatchReturned /\ (last.noisepar # "seed" \/ last.noise = RInt(0)))
       => BatchSeeds

C4_Witness ==
    /\ BatchReturned
    /\ last.n >= 2
    /\ last.noisepar # "seed"
    /\ last.noise # RInt(0)
    /\ last.pre["seed"] = RInt(1)
    /\ last.res.heap[last.res.sims[2].ref]["seed"] = RInt(2)

\* C5: single_run and multi_run leave every parameter of the template as
\* it was, whether they return or raise, and no simulation they return is
\* the template.
C5_TemplateNotMutated ==
    /\ last.op \in {"single_run", "multi_run"} => heap[T] = last.pre
    /\ last.op = "single_run" => last.res.ref # T
    /\ last.op = "multi_run" =>
          /\ last.res.out # T
          /\ \A i \in 1..Len(last.res.sims) : last.res.sims[i].ref # T

C5_Witness ==
    /\ last.op = "single_run"
    /\ last.sim = T
    /\ last.ind >= 1
    /\ last.res.status = "ok"
    /\ heap[last.res.ref]["seed"] # heap[T]["seed"]
    /\ heap[T] = last.pre

C5_WitnessRaised ==
    /\ last.op = "multi_run"
    /\ last.sim = T
    /\ last.res.status = "RunError"
    /\ heap[T] = last.pre

C7_IterLengths ==
    (last.op = "multi_run" /\ last.iterpars.given) =>
       LET items == last.iterpars.items
           lens == {Len(items[j][2]) : j \in 1..Len(items)}
       IN  /\ Cardinality(lens) > 1 =>
                /\ last.res.status = "LengthMismatch"
                /\ last.res.dispatched = 0
                /\ last.res.sims = <<>>
                /\ last.res.log = <<>>
                /\ heap = (T :> last.pre)
           /\ Cardinality(lens) = 1 =>
                /\ last.res.status # "LengthMismatch"
                /\ lens = {last.res.dispatched}
                /\ lens = {Len(last.res.sims)}

C7_Witness ==
    /\ last.op = "multi_run"
    /\ last.iterpars.given
    /\ Len(last.iterpars.items) = 3
    /\ Len(last.iterpars.items[1][2]) = 1
    /\ Len(last.iterpars.items[2][2]) = 1
    /\ Len(last.iterpars.items[3][2]) = 2
    /\ last.res.status = "LengthMismatch"

C7_WitnessCount ==
    /\ last.op = "multi_run"
    /\ last.iterpars.given
    /\ Len(last.iterpars.items) = 2
    /\ last.n = 0
    /\ last.res.dispatched = 2
    /\ last.res.status = "ok"

\* C10: the noise multiplier of single_run is strictly positive: 1 + d > 1
\* for a scaled draw d > 0, 1/(1 - d) in (0, 1] for d <= 0, and 1 for a
\* noise magnitude of 0; the noise parameter keeps its sign, and its value
\* when the noise is 0.
C10_NoiseFactor ==
    (last.op = "single_run" /\ last.res.noisefactor # None) =>
       LET d == last.res.noiseval
           f == last.res.noisefactor
           np == last.res.noisepar
           zero == RInt(0)
           one == RInt(1)
           before == IF np = "seed"
                     THEN RAdd(RunPars["seed"], RInt(last.ind))
                     ELSE RunPars[np]
           after == heap[last.res.ref][np]
       IN  /\ RGt(f, zero)
           /\ RGt(d, zero) => f = RAdd(one, d) /\ RGt(f, one)
           /\ ~RGt(d, zero) => RMul(f, RSub(one, d)) = one /\ RGe(one, f)
           /\ last.noise = zero => f = one
           /\ (np \in DOMAIN RunPars /\ last.kwargs = <<>>) =>
                 /\ after = RMul(before, f)
                 /\ RGt(after, zero) <=> RGt(before, zero)
                 /\ RGt(zero, after) <=> RGt(zero, before)
                 /\ last.noise = zero => after = before

C10_Witness ==
    /\ last.op = "single_run"
    /\ last.res.status = "ok"
    /\ last.res.noiseval = RInt(-2)
    /\ last.res.noisefactor = Rat(1, 3)
    /\ last.res.noisepar = "r_contact"
    /\ heap[last.res.ref]["r_contact"] = Rat(-1, 3)

====
